---- MODULE Spec2Model ----
(***************************************************************************)
(* Model of visionAPI.py: annotate(path) builds an image payload from a    *)
(* path, issues six annotation requests against the vision service and     *)
(* prints one report per response on standard output.                      *)
(*                                                                         *)
(* Strings that the program inspects character by character (the path)     *)
(* are sequences of one-character strings.  A line of standard output is a *)
(* record [kind, text, nums]: kind names the format string of the print    *)
(* call, text and nums are the values substituted into it.                 *)
(***************************************************************************)
EXTENDS Integers, Sequences, FiniteSets, TLC

VARIABLES
    path,        \* annotate's argument (args.image_url)
    file,        \* the filesystem's answer for path: [readable, content]
    opened,      \* the paths io.open has been called on, in order
    image,       \* the types.Image payload: [image_uri, content]
    responses,   \* annotate's locals labels_response .. object_response
    calls,       \* the requests issued on the client, in order
    out,         \* standard output, a sequence of lines
    exception,   \* the exception propagating out of annotate, if any
    pc           \* the statement of annotate that runs next

vars == <<path, file, opened, image, responses, calls, out, exception, pc>>

----------------------------------------------------------------------------
(* Bounds of the model *)

\* longest path of the input-classification specification
MaxPathLen == 4
\* most records per collection in a service reply of a whole run
MaxRecords == 1
\* most items per collection of a web_detection reply in SpecWeb
MaxWebItems == 2
\* most faces of a face_detection reply in SpecFace
MaxFaces == 1
\* how far the likelihood ordinals of SpecFace go beyond the table on each side
OrdinalSlack == 1

----------------------------------------------------------------------------
(* Python helpers *)

\* str.startswith
startswith(s, prefix) ==
    /\ Len(s) >= Len(prefix)
    /\ SubSeq(s, 1, Len(prefix)) = prefix

\* tuple[k]: Python indexing, negative k counts from the end
PyIndex(t, k) ==
    IF k >= 0 /\ k < Len(t) THEN [ok |-> TRUE, value |-> t[k + 1]]
    ELSE IF k < 0 /\ k >= -Len(t) THEN [ok |-> TRUE, value |-> t[Len(t) + k + 1]]
    ELSE [ok |-> FALSE, value |-> "IndexError"]

RECURSIVE Flatten(_)
Flatten(ss) == IF ss = <<>> THEN <<>> ELSE Head(ss) \o Flatten(Tail(ss))

\* all sequences over S of length at most n
SeqsUpTo(S, n) == UNION {[1..k -> S] : k \in 0..n}

----------------------------------------------------------------------------
(* Exceptions *)

NoException == [type |-> "None", message |-> <<>>]
Raised(type, message) == [type |-> type, message |-> message]

ErrorsDoc == "For more info on error messages, check: https://cloud.google.com/apis/design/errors"

\* raise Exception('{}\nFor more info ...'.format(response.error.message))
ServiceError(response) == Raised("Exception", <<response.error.message, ErrorsDoc>>)

----------------------------------------------------------------------------
(* Standard output *)

SeparatorWidth == 79

Line(kind, text, nums) == [kind |-> kind, text |-> text, nums |-> nums]

\* print('\n<title>'); print('=' * 79)
Header(title) == <<Line("header", title, <<>>), Line("separator", "=", <<SeparatorWidth>>)>>

\* '({},{})'.format(vertex.x, vertex.y) for each vertex, joined
Vertices(poly) == Flatten([i \in 1..Len(poly) |-> <<poly[i].x, poly[i].y>>])

LabelsTitle == "Labels (and confidence score):"
WebTitle == "Web entities (and relevancy score):"
FacesTitle == "Faces:"
LogosTitle == "Logos:"
TextsTitle == "Texts:"
ObjectsTitle == "Objects:"

----------------------------------------------------------------------------
(* The report functions: each returns the lines it prints and the          *)
(* exception it raises (NoException when it returns normally).             *)

Report(lines, exc) == [lines |-> lines, exception |-> exc]

\* f'{label.score*100.:.2f}': scores are held in ten-thousandths, so the
\* percentage has score \div 100 before the point and score % 100 after it
Percent(score) == <<score \div 100, score % 100>>

\* labels_report with the error check of face_report, logo_report and text_report
Mut_labels_report(response) ==
    LET anns == response.label_annotations
        lines == Header(LabelsTitle)
                 \o [i \in 1..Len(anns) |->
                       Line("label", anns[i].description, Percent(anns[i].score))]
    IN IF response.error.message # "" THEN Report(lines, ServiceError(response))
       ELSE Report(lines, NoException)

labels_report(response) ==
    LET anns == response.label_annotations
    IN Report(Header(LabelsTitle)
              \o [i \in 1..Len(anns) |->
                    Line("label", anns[i].description, Percent(anns[i].score))],
              NoException)

\* the block without its "if collection:" guard: an empty collection prints "0 ..."
Mut_UrlBlock(coll, countKind, urlKind) ==
    <<Line(countKind, "", <<Len(coll)>>)>>
    \o [i \in 1..Len(coll) |-> Line(urlKind, coll[i].url, <<>>)]

\* one "if collection:" block of web_report: the count line, then a Url line
\* per item; nothing at all for an empty collection
UrlBlock(coll, countKind, urlKind) ==
    IF coll = <<>> THEN <<>>
    ELSE <<Line(countKind, "", <<Len(coll)>>)>>
         \o [i \in 1..Len(coll) |-> Line(urlKind, coll[i].url, <<>>)]

\* the "if annotations.web_entities:" block: the count line, then a Score
\* and a Description line per entity
EntityBlock(ents) ==
    IF ents = <<>> THEN <<>>
    ELSE <<Line("entities_count", "", <<Len(ents)>>)>>
         \o Flatten([i \in 1..Len(ents) |->
                <<Line("entity_score", "", <<ents[i].score>>),
                  Line("entity_description", ents[i].description, <<>>)>>])

web_report(annotations) ==
    Report(Header(WebTitle)
           \o UrlBlock(annotations.pages_with_matching_images, "pages_count", "page_url")
           \o UrlBlock(annotations.full_matching_images, "full_count", "full_url")
           \o UrlBlock(annotations.partial_matching_images, "partial_count", "partial_url")
           \o EntityBlock(annotations.web_entities),
           NoException)

likelihood_name ==
    <<"UNKNOWN", "VERY_UNLIKELY", "UNLIKELY", "POSSIBLE", "LIKELY", "VERY_LIKELY">>

\* the body of face_report's loop for one face: the three prints index
\* likelihood_name in turn, and the first IndexError ends the function
FaceBlock(face) ==
    LET a == PyIndex(likelihood_name, face.anger_likelihood)
        j == PyIndex(likelihood_name, face.joy_likelihood)
        s == PyIndex(likelihood_name, face.surprise_likelihood)
        la == <<Line("anger", a.value, <<>>)>>
        lj == <<Line("joy", j.value, <<>>)>>
        ls == <<Line("surprise", s.value, <<>>)>>
        lb == <<Line("face_bounds", "", Vertices(face.bounding_poly.vertices))>>
        IndexError == Raised("IndexError", <<"tuple index out of range">>)
    IN IF ~a.ok THEN Report(<<>>, IndexError)
       ELSE IF ~j.ok THEN Report(la, IndexError)
       ELSE IF ~s.ok THEN Report(la \o lj, IndexError)
       ELSE Report(la \o lj \o ls \o lb, NoException)

RECURSIVE FaceLoop(_)
FaceLoop(faces) ==
    IF faces = <<>> THEN Report(<<>>, NoException)
    ELSE LET b == FaceBlock(Head(faces))
         IN IF b.exception.type # "None" THEN b
            ELSE LET r == FaceLoop(Tail(faces))
                 IN Report(b.lines \o r.lines, r.exception)

face_report(response) ==
    LET loop == FaceLoop(response.face_annotations)
        lines == Header(FacesTitle) \o loop.lines
    IN IF loop.exception.type # "None" THEN Report(lines, loop.exception)
       ELSE IF response.error.message # "" THEN Report(lines, ServiceError(response))
       ELSE Report(lines, NoException)

\* logo_report without its error check
Mut_logo_report(response) ==
    LET logos == response.logo_annotations
    IN Report(Header(LogosTitle)
              \o [i \in 1..Len(logos) |-> Line("logo", logos[i].description, <<>>)],
              NoException)

logo_report(response) ==
    LET logos == response.logo_annotations
        lines == Header(LogosTitle)
                 \o [i \in 1..Len(logos) |-> Line("logo", logos[i].description, <<>>)]
    IN IF response.error.message # "" THEN Report(lines, ServiceError(response))
       ELSE Report(lines, NoException)

text_report(response) ==
    LET texts == response.text_annotations
        lines == Header(TextsTitle)
                 \o Flatten([i \in 1..Len(texts) |->
                        <<Line("text", texts[i].description, <<>>),
                          Line("bounds", "", Vertices(texts[i].bounding_poly.vertices))>>])
    IN IF response.error.message # "" THEN Report(lines, ServiceError(response))
       ELSE Report(lines, NoException)

\* one "- (x, y)" line per normalized vertex
VertexLines(poly) == [i \in 1..Len(poly) |-> Line("vertex", "", <<poly[i].x, poly[i].y>>)]

object_report(objects) ==
    Report(Header(ObjectsTitle)
           \o <<Line("objects_count", "", <<Len(objects)>>)>>
           \o Flatten([i \in 1..Len(objects) |->
                  <<Line("object", objects[i].name, <<objects[i].score>>),
                    Line("vertices_title", "", <<>>)>>
                  \o VertexLines(objects[i].bounding_poly.normalized_vertices)]),
           NoException)

----------------------------------------------------------------------------
(* The vision service: the replies a request can get.  The service is      *)
(* opaque to the program, so every reply of the right shape is possible;   *)
(* these are the ones the model draws from.                                *)

ErrorMessages == {"", "Bad image data."}
Error(m) == [message |-> m]

Poly == [vertices |-> <<[x |-> 10, y |-> 20], [x |-> 30, y |-> 40]>>,
         normalized_vertices |-> <<[x |-> 1, y |-> 2]>>]

Labels == {[description |-> "cat", score |-> 8765]}
Urls == {"http://a/1.png", "http://b/2.png"}
Entities == {[description |-> "Cat", score |-> 7]}
Logos == {[description |-> "Acme"]}
Texts == {[description |-> "STOP", bounding_poly |-> Poly]}
Objects == {[name |-> "Dog", score |-> 9, bounding_poly |-> Poly]}

Face(a, j, s) == [anger_likelihood |-> a, joy_likelihood |-> j,
                  surprise_likelihood |-> s, bounding_poly |-> Poly]

\* a face whose likelihoods are values of the enum, and one whose joy is not
Faces == {Face(1, 3, 0), Face(4, 6, 2)}

\* the first k of a fixed list of pages
Pages(k) == [i \in 1..k |-> [url |-> IF i % 2 = 1 THEN "http://a/1.png" ELSE "http://b/2.png"]]

\* web detections whose four collections all hold k items
WebDetections ==
    {[pages_with_matching_images |-> Pages(k), full_matching_images |-> Pages(k),
      partial_matching_images |-> Pages(k),
      web_entities |-> [i \in 1..k |-> [description |-> "Cat", score |-> 7]]]
       : k \in 0..MaxRecords}

\* every web detection with at most MaxWebItems items per collection
AllWebReplies ==
    {[web_detection |->
         [pages_with_matching_images |-> [i \in 1..Len(p) |-> [url |-> p[i]]],
          full_matching_images |-> [i \in 1..Len(f) |-> [url |-> f[i]]],
          partial_matching_images |-> [i \in 1..Len(q) |-> [url |-> q[i]]],
          web_entities |-> e],
      error |-> Error("")]
       : p \in SeqsUpTo(Urls, MaxWebItems), f \in SeqsUpTo(Urls, MaxWebItems),
         q \in SeqsUpTo(Urls, MaxWebItems), e \in SeqsUpTo(Entities, MaxWebItems)}

\* the likelihood ordinals a reply may carry: the enum's values and, the
\* field being an open enum, integers beyond them on both sides
Ordinals == (0 - Len(likelihood_name) - OrdinalSlack)..(Len(likelihood_name) - 1 + OrdinalSlack)

AllFaces == {Face(a, j, s) : a \in Ordinals, j \in Ordinals, s \in Ordinals}

\* every face reply with at most MaxFaces faces
AllFaceReplies ==
    {[face_annotations |-> a, error |-> Error(m)]
       : a \in SeqsUpTo(AllFaces, MaxFaces), m \in ErrorMessages}

LabelReplies ==
    {[label_annotations |-> a, error |-> Error(m)]
       : a \in SeqsUpTo(Labels, MaxRecords), m \in ErrorMessages}
WebReplies ==
    {[web_detection |-> w, error |-> Error(m)] : w \in WebDetections, m \in ErrorMessages}
FaceReplies ==
    {[face_annotations |-> a, error |-> Error(m)]
       : a \in SeqsUpTo(Faces, MaxRecords), m \in ErrorMessages}
LogoReplies ==
    {[logo_annotations |-> a, error |-> Error(m)]
       : a \in SeqsUpTo(Logos, MaxRecords), m \in ErrorMessages}
TextReplies ==
    {[text_annotations |-> a, error |-> Error(m)]
       : a \in SeqsUpTo(Texts, MaxRecords), m \in ErrorMessages}
ObjectReplies ==
    {[localized_object_annotations |-> a, error |-> Error(m)]
       : a \in SeqsUpTo(Objects, MaxRecords), m \in ErrorMessages}

----------------------------------------------------------------------------
(* annotate *)

Unbound == [unbound |-> TRUE]

\* the request `method` carrying the current image, and how it ended
Call(method, outcome, message) ==
    [method |-> method, image |-> image, outcome |-> outcome, error |-> message]

\* the client returns `reply` for the request
Returned(method, reply) ==
    /\ calls' = Append(calls, Call(method, "returned", reply.error.message))
    /\ exception' = exception

\* the client's exception caught and the request tried again
Mut_TransportFailure(method) ==
    /\ calls' = Append(calls, Call(method, "raised", ""))
    /\ UNCHANGED <<exception, pc, responses>>

\* the client raises instead of returning: annotate has no handler
TransportFailure(method) ==
    /\ calls' = Append(calls, Call(method, "raised", ""))
    /\ exception' = Raised("GoogleAPICallError", <<method>>)
    /\ pc' = "failed"
    /\ UNCHANGED responses

\* a report that checks for its exception before it prints anything
Mut_Reported(r, next) ==
    /\ out' = IF r.exception.type = "None" THEN out \o r.lines ELSE out
    /\ exception' = r.exception
    /\ pc' = IF r.exception.type = "None" THEN next ELSE "failed"
    /\ UNCHANGED <<path, file, opened, image, responses, calls>>

\* a report function runs on its response: its lines reach standard output,
\* and what it raises propagates out of annotate
Reported(r, next) ==
    /\ out' = out \o r.lines
    /\ exception' = r.exception
    /\ pc' = IF r.exception.type = "None" THEN next ELSE "failed"
    /\ UNCHANGED <<path, file, opened, image, responses, calls>>

\* client = vision.ImageAnnotatorClient()
ImageAnnotatorClient ==
    /\ pc = "client"
    /\ \/ /\ pc' = "load"
          /\ UNCHANGED exception
       \/ /\ pc' = "failed"
          /\ exception' = Raised("DefaultCredentialsError", <<>>)
    /\ UNCHANGED <<path, file, opened, image, responses, calls, out>>

http == <<"h", "t", "t", "p">>
gs == <<"g", "s", ":">>

\* the storage prefix tested without its colon
Mut_IsRemote(p) == startswith(p, http) \/ startswith(p, <<"g", "s">>)

\* path.startswith('http') or path.startswith('gs:')
IsRemote(p) == startswith(p, http) \/ startswith(p, gs)

\* a file that cannot be opened read as an empty one
Mut_LoadImage ==
    /\ pc = "load"
    /\ IF IsRemote(path)
       THEN /\ image' = [image_uri |-> path, content |-> <<>>]
            /\ UNCHANGED opened
       ELSE /\ opened' = Append(opened, path)
            /\ image' = [image_uri |-> <<>>, content |-> file.content]
    /\ pc' = "label_detection"
    /\ UNCHANGED <<path, file, responses, calls, out, exception>>

\* the if/else that builds the image
LoadImage ==
    /\ pc = "load"
    /\ IF IsRemote(path)
       THEN /\ image' = [image_uri |-> path, content |-> <<>>]
            /\ pc' = "label_detection"
            /\ UNCHANGED <<opened, exception>>
       ELSE /\ opened' = Append(opened, path)
            /\ IF file.readable
               THEN /\ image' = [image_uri |-> <<>>, content |-> file.content]
                    /\ pc' = "label_detection"
                    /\ UNCHANGED exception
               ELSE /\ exception' = Raised("IOError", path)
                    /\ pc' = "failed"
                    /\ UNCHANGED image
    /\ UNCHANGED <<path, file, responses, calls, out>>

LabelDetection ==
    /\ pc = "label_detection"
    /\ \/ \E reply \in LabelReplies :
            /\ Returned("label_detection", reply)
            /\ responses' = [responses EXCEPT !.labels_response = reply]
            /\ pc' = "labels_report"
       \/ TransportFailure("label_detection")
    /\ UNCHANGED <<path, file, opened, image, out>>

LabelsReport ==
    /\ pc = "labels_report"
    /\ Reported(labels_report(responses.labels_response), "web_detection")

\* web_response = client.web_detection(image=image).web_detection
\* the call to web_report left out: the face request follows at once
Mut_WebDetectionFrom(replies) ==
    /\ pc = "web_detection"
    /\ \/ \E reply \in replies :
            /\ Returned("web_detection", reply)
            /\ responses' = [responses EXCEPT !.web_response = reply.web_detection]
            /\ pc' = "face_detection"
       \/ TransportFailure("web_detection")
    /\ UNCHANGED <<path, file, opened, image, out>>

WebDetectionFrom(replies) ==
    /\ pc = "web_detection"
    /\ \/ \E reply \in replies :
            /\ Returned("web_detection", reply)
            /\ responses' = [responses EXCEPT !.web_response = reply.web_detection]
            /\ pc' = "web_report"
       \/ TransportFailure("web_detection")
    /\ UNCHANGED <<path, file, opened, image, out>>

WebDetection == WebDetectionFrom(WebReplies)

WebReport ==
    /\ pc = "web_report"
    /\ Reported(web_report(responses.web_response), "face_detection")

FaceDetectionFrom(replies) ==
    /\ pc = "face_detection"
    /\ \/ \E reply \in replies :
            /\ Returned("face_detection", reply)
            /\ responses' = [responses EXCEPT !.face_response = reply]
            /\ pc' = "face_report"
       \/ TransportFailure("face_detection")
    /\ UNCHANGED <<path, file, opened, image, out>>

FaceDetection == FaceDetectionFrom(FaceReplies)

FaceReport ==
    /\ pc = "face_report"
    /\ Reported(face_report(responses.face_response), "logo_detection")

LogoDetection ==
    /\ pc = "logo_detection"
    /\ \/ \E reply \in LogoReplies :
            /\ Returned("logo_detection", reply)
            /\ responses' = [responses EXCEPT !.logo_response = reply]
            /\ pc' = "logo_report"
       \/ TransportFailure("logo_detection")
    /\ UNCHANGED <<path, file, opened, image, out>>

LogoReport ==
    /\ pc = "logo_report"
    /\ Reported(logo_report(responses.logo_response), "text_detection")

TextDetection ==
    /\ pc = "text_detection"
    /\ \/ \E reply \in TextReplies :
            /\ Returned("text_detection", reply)
            /\ responses' = [responses EXCEPT !.text_response = reply]
            /\ pc' = "text_report"
       \/ TransportFailure("text_detection")
    /\ UNCHANGED <<path, file, opened, image, out>>

TextReport ==
    /\ pc = "text_report"
    /\ Reported(text_report(responses.text_response), "object_localization")

\* object_response = client.object_localization(image=image).localized_object_annotations
ObjectLocalization ==
    /\ pc = "object_localization"
    /\ \/ \E reply \in ObjectReplies :
            /\ Returned("object_localization", reply)
            /\ responses' = [responses EXCEPT
                                !.object_response = reply.localized_object_annotations]
            /\ pc' = "object_report"
       \/ TransportFailure("object_localization")
    /\ UNCHANGED <<path, file, opened, image, out>>

ObjectReport ==
    /\ pc = "object_report"
    /\ Reported(object_report(responses.object_response), "done")

----------------------------------------------------------------------------
(* A whole run of the script *)

NoFile == [readable |-> FALSE, content |-> <<>>]
AFile == [readable |-> TRUE, content |-> <<137, 80, 78, 71>>]

\* open('') fails whatever the filesystem holds
Files(p) == IF p = <<>> THEN {NoFile} ELSE {NoFile, AFile}

RunPaths == {<<"h", "t", "t", "p", ":", "/", "/", "a">>, <<"g", "s", ":", "b">>, <<"c", ".", "p", "n", "g">>}

\* the state as annotate is entered with argument p
Entered(p) ==
    /\ path = p
    /\ file \in Files(p)
    /\ opened = <<>>
    /\ image = Unbound
    /\ responses = [labels_response |-> Unbound, web_response |-> Unbound,
                    face_response |-> Unbound, logo_response |-> Unbound,
                    text_response |-> Unbound, object_response |-> Unbound]
    /\ calls = <<>>
    /\ out = <<>>
    /\ exception = NoException
    /\ pc = "client"

Init == \E p \in RunPaths : Entered(p)

Next ==
    \/ ImageAnnotatorClient
    \/ LoadImage
    \/ LabelDetection
    \/ LabelsReport
    \/ WebDetection
    \/ WebReport
    \/ FaceDetection
    \/ FaceReport
    \/ LogoDetection
    \/ LogoReport
    \/ TextDetection
    \/ TextReport
    \/ ObjectLocalization
    \/ ObjectReport

Spec == Init /\ [][Next]_vars

----------------------------------------------------------------------------
(* The input classification alone: annotate up to the built image, over    *)
(* every path of at most MaxPathLen characters.                            *)

Alphabet == {"h", "t", "p", "g", "s", ":", "x"}
Paths == SeqsUpTo(Alphabet, MaxPathLen)

InitLoad == \E p \in Paths : Entered(p)
NextLoad == ImageAnnotatorClient \/ LoadImage
SpecLoad == InitLoad /\ [][NextLoad]_vars

(* web_report alone: a run up to the web report, over every web detection  *)
(* of AllWebReplies.                                                       *)

LocalPath == <<"c", ".", "p", "n", "g">>

InitLocal == Entered(LocalPath)
NextWeb ==
    \/ ImageAnnotatorClient
    \/ LoadImage
    \/ LabelDetection
    \/ LabelsReport
    \/ WebDetectionFrom(AllWebReplies)
    \/ WebReport
SpecWeb == InitLocal /\ [][NextWeb]_vars

(* face_report alone: a run up to the face report, over every face reply   *)
(* of AllFaceReplies.                                                      *)

NextFace ==
    \/ ImageAnnotatorClient
    \/ LoadImage
    \/ LabelDetection
    \/ LabelsReport
    \/ WebDetection
    \/ WebReport
    \/ FaceDetectionFrom(AllFaceReplies)
    \/ FaceReport
SpecFace == InitLocal /\ [][NextFace]_vars

----------------------------------------------------------------------------
(* Vocabulary of the properties *)

OrderMethods == <<"label_detection", "web_detection", "face_detection",
                  "logo_detection", "text_detection", "object_localization">>
OrderTitles == <<LabelsTitle, WebTitle, FacesTitle, LogosTitle, TextsTitle, ObjectsTitle>>
\* the methods whose report function inspects response.error.message
CheckedMethods == {"face_detection", "logo_detection", "text_detection"}
UncheckedMethods == {"label_detection", "web_detection", "object_localization"}

IsHeader(l) == l.kind = "header"
\* the titles of the report sections on standard output, in order
Titles(o) == LET h == SelectSeq(o, IsHeader) IN [i \in 1..Len(h) |-> h[i].text]
Sections(o) == Len(SelectSeq(o, IsHeader))
Methods(c) == [i \in 1..Len(c) |-> c[i].method]
IsPrefix(s, t) == Len(s) <= Len(t) /\ \A i \in 1..Len(s) : s[i] = t[i]
\* the lines of kind k, in order
OfKind(o, k) == LET Is(l) == l.kind = k IN SelectSeq(o, Is)
\* the position of the k-th header of o
RECURSIVE HeaderAt(_, _, _)
HeaderAt(o, k, from) ==
    IF from > Len(o) THEN Len(o) + 1
    ELSE IF IsHeader(o[from]) THEN (IF k = 1 THEN from ELSE HeaderAt(o, k - 1, from + 1))
    ELSE HeaderAt(o, k, from + 1)
\* the k-th report section of o: from its header up to the next header
Section(o, k) == SubSeq(o, HeaderAt(o, k, 1), HeaderAt(o, k + 1, 1) - 1)

\* s begins with the characters of prefix
BeginsWith(s, prefix) ==
    \E rest \in 0..Len(s) : /\ Len(s) = Len(prefix) + rest
                            /\ \A i \in 1..Len(prefix) : s[i] = prefix[i]

LocalReadable == ~(BeginsWith(path, http) \/ BeginsWith(path, gs)) /\ file.readable

----------------------------------------------------------------------------
(* C1: requests are issued in the order labels, web, faces, logos, text,   *)
(* objects, and between two requests exactly the report of the earlier one *)
(* runs: a step that issues request k+1 starts with k sections printed, and *)
(* a step that prints starts with one request more than sections and ends   *)
(* with the sections of exactly the categories requested so far.           *)
C1_RequestThenReport ==
    [][/\ calls' # calls =>
            /\ Len(calls') = Len(calls) + 1
            /\ IsPrefix(Methods(calls'), OrderMethods)
            /\ SubSeq(calls', 1, Len(calls)) = calls
            /\ Sections(out) = Len(calls)
            /\ out' = out
       /\ out' # out =>
            /\ calls' = calls
            /\ Sections(out) = Len(calls) - 1
            /\ calls[Len(calls)].outcome = "returned"
            /\ Titles(out') = SubSeq(OrderTitles, 1, Len(calls))
            /\ SubSeq(out', 1, Len(out)) = out]_vars

C1_Witness ==
    /\ pc = "done"
    /\ Methods(calls) = OrderMethods
    /\ Titles(out) = OrderTitles

----------------------------------------------------------------------------
(* C2, as first stated: given a readable local path, no service-reported   *)
(* error ends the run before all six requests have been issued.            *)
C2_Original ==
    (LocalReadable /\ exception.type = "Exception") => Len(calls) = Len(OrderMethods)

(* C2, amended: given a readable local path, the requests issued are       *)
(* always the first ones of labels, web, faces, logos, text, objects, each *)
(* once; a run that ends without failure has issued exactly those six; and *)
(* a service-reported error ends the run only after the request of its own *)
(* category, faces, logos or text, the third, fourth or fifth, was issued. *)
C2_SixCallsUnlessChecked ==
    LocalReadable =>
        /\ IsPrefix(Methods(calls), OrderMethods)
        /\ pc = "done" => Methods(calls) = OrderMethods
        /\ exception.type = "Exception" =>
              /\ pc = "failed"
              /\ Len(calls) \in 3..5
              /\ calls[Len(calls)].method \in CheckedMethods
              /\ calls[Len(calls)].error # ""

C2_Witness ==
    /\ LocalReadable
    /\ exception.type = "Exception"
    /\ Methods(calls) = SubSeq(OrderMethods, 1, 3)

----------------------------------------------------------------------------
(* C3: once the report of a face, logo or text response that carries a     *)
(* non-empty error message has run, the run has failed with the exception  *)
(* that report raised, and neither a later request nor a later section     *)
(* exists.                                                                 *)
C3_CheckedErrorHalts ==
    \A i \in 1..Len(calls) :
        (/\ calls[i].method \in CheckedMethods
         /\ calls[i].outcome = "returned"
         /\ calls[i].error # ""
         /\ Sections(out) >= i)
        => /\ pc = "failed"
           /\ Len(calls) = i
           /\ Sections(out) = i
           /\ exception.type \in {"Exception", "IndexError"}
           /\ exception.type = "Exception" =>
                 exception.message = <<calls[i].error, ErrorsDoc>>

C3_Witness ==
    /\ pc = "failed"
    /\ Len(calls) = 4
    /\ calls[4].method = "logo_detection"
    /\ calls[4].error # ""
    /\ exception.type = "Exception"
    /\ Sections(out) = 4

----------------------------------------------------------------------------
(* C4: an error message on the labels, web or objects reply never fails    *)
(* the run: whenever the run has failed, the exception is a credentials,   *)
(* file, transport or index error or the error of a face, logo or text     *)
(* reply; right after the report of a labels, web or objects reply with an *)
(* error message the run stands at the next request (at the end, after     *)
(* objects); and a run that has not ended can always take its next step.   *)
C4_UncheckedErrorIgnored ==
    /\ pc = "failed" =>
          \/ exception.type \in {"DefaultCredentialsError", "IOError",
                                 "GoogleAPICallError", "IndexError"}
          \/ /\ exception.type = "Exception"
             /\ calls[Len(calls)].method \in CheckedMethods
             /\ exception.message[1] = calls[Len(calls)].error
             /\ exception.message[1] # ""
    /\ \A i \in 1..Len(calls) :
          (/\ calls[i].method \in UncheckedMethods
           /\ calls[i].outcome = "returned"
           /\ calls[i].error # ""
           /\ Len(calls) = i
           /\ Sections(out) = i)
          => /\ exception.type = "None"
             /\ pc = IF i = Len(OrderMethods) THEN "done" ELSE OrderMethods[i + 1]
    /\ pc \notin {"done", "failed"} => ENABLED Next
    /\ pc = "done" => /\ Methods(calls) = OrderMethods
                      /\ Titles(out) = OrderTitles
                      /\ exception.type = "None"

C4_Witness ==
    /\ pc = "done"
    /\ \A i \in 1..Len(calls) : calls[i].method \in UncheckedMethods => calls[i].error # ""
    /\ \A i \in 1..Len(calls) : calls[i].method \in CheckedMethods => calls[i].error = ""
    /\ Titles(out) = OrderTitles

----------------------------------------------------------------------------
(* C5: no method is requested twice, and a request that fails at transport *)
(* level is the last thing the run does: it is the last request, the run   *)
(* has failed with the transport error, and the sections printed are those *)
(* of the earlier requests only.                                           *)
C5_OnceNoRetry ==
    /\ \A i, j \in 1..Len(calls) : calls[i].method = calls[j].method => i = j
    /\ \A i \in 1..Len(calls) :
          calls[i].outcome = "raised"
          => /\ i = Len(calls)
             /\ pc = "failed"
             /\ exception = Raised("GoogleAPICallError", <<calls[i].method>>)
             /\ Sections(out) = i - 1
    /\ \A i \in 1..Len(calls) : calls[i].image = image

C5_Witness ==
    /\ Len(calls) = 4
    /\ calls[4].outcome = "raised"
    /\ pc = "failed"
    /\ Sections(out) = 3

----------------------------------------------------------------------------
(* C7, as first stated: a run that ends in a failure has printed no report *)
(* section.                                                                *)
C7_Original == pc = "failed" => Sections(out) = 0

(* C7, amended: a run that ends in a failure has printed exactly the       *)
(* sections of the reports that ran before the failure, in order: none for *)
(* a credentials or file-read failure, those of the earlier requests for a *)
(* transport failure, and those up to and including the failing category's *)
(* own for an exception raised by a report; every failure ends the run the *)
(* same way, with the exception propagating and no further step.           *)
C7_SectionsBeforeFailure ==
    pc = "failed" =>
        /\ exception.type # "None"
        /\ ~ ENABLED Next
        /\ Titles(out) = SubSeq(OrderTitles, 1,
              CASE exception.type \in {"DefaultCredentialsError", "IOError"} -> 0
                [] exception.type = "GoogleAPICallError" -> Len(calls) - 1
                [] OTHER -> Len(calls))

C7_Witness ==
    /\ pc = "failed"
    /\ exception.type = "Exception"
    /\ Len(calls) = 5
    /\ Titles(out) = SubSeq(OrderTitles, 1, 5)

----------------------------------------------------------------------------
(* C10: when the path does not begin with 'http' or 'gs:' and the file     *)
(* cannot be opened, the run, once past the load, has failed with the I/O  *)
(* error, has issued no request and has printed nothing.                   *)
C10_UnreadableFileFailsFirst ==
    (/\ ~(BeginsWith(path, http) \/ BeginsWith(path, gs))
     /\ ~file.readable
     /\ pc \notin {"client", "load"}
     /\ exception.type # "DefaultCredentialsError")
    => /\ pc = "failed"
       /\ exception.type = "IOError"
       /\ opened = <<path>>
       /\ calls = <<>>
       /\ out = <<>>

C10_Witness ==
    /\ pc = "failed"
    /\ exception.type = "IOError"
    /\ ~file.readable
    /\ opened = <<path>>

----------------------------------------------------------------------------
(* C6: once the image is built or the open has failed, a path that begins  *)
(* with 'http' or 'gs:' has led to no open at all and to an image that     *)
(* refers to the path; every other path has been opened, exactly once, as  *)
(* a file, and its bytes are the image's content, or else the open failed. *)
C6_Classification ==
    (pc \notin {"client", "load"} /\ exception.type # "DefaultCredentialsError") =>
        IF BeginsWith(path, http) \/ BeginsWith(path, gs)
        THEN /\ opened = <<>>
             /\ pc = "label_detection"
             /\ image = [image_uri |-> path, content |-> <<>>]
        ELSE /\ opened = <<path>>
             /\ IF file.readable
                THEN /\ pc = "label_detection"
                     /\ image = [image_uri |-> <<>>, content |-> file.content]
                ELSE /\ pc = "failed"
                     /\ exception.type = "IOError"

C6_Witness ==
    /\ pc = "label_detection"
    /\ path = <<"g", "s", ":", "x">>
    /\ file.readable
    /\ opened = <<>>
    /\ image.image_uri = path

----------------------------------------------------------------------------
\* one block of the web section: absent for an empty collection, otherwise a
\* count line with the length, followed directly by one Url line per item
C8_Block(sec, coll, countKind, urlKind) ==
    /\ Len(OfKind(sec, countKind)) = IF Len(coll) = 0 THEN 0 ELSE 1
    /\ Len(OfKind(sec, urlKind)) = Len(coll)
    /\ \A i \in 1..Len(coll) : OfKind(sec, urlKind)[i].text = coll[i].url
    /\ Len(coll) > 0 =>
          \E at \in 1..Len(sec) :
              /\ sec[at].kind = countKind
              /\ sec[at].nums = <<Len(coll)>>
              /\ at + Len(coll) <= Len(sec)
              /\ \A i \in 1..Len(coll) : sec[at + i].kind = urlKind

(* C8: in the web section of the output, each of the blocks for pages with *)
(* matching images, full matches and partial matches is absent when its    *)
(* collection is empty and otherwise is one count line, carrying the       *)
(* collection's length, followed directly by one Url line per item, in     *)
(* order; the web entities block is absent when there are no entities and  *)
(* otherwise is one count line and a Score and a Description line each.    *)
C8_WebBlocks ==
    Sections(out) >= 2 =>
        LET w == responses.web_response
            sec == Section(out, 2)
        IN /\ C8_Block(sec, w.pages_with_matching_images, "pages_count", "page_url")
           /\ C8_Block(sec, w.full_matching_images, "full_count", "full_url")
           /\ C8_Block(sec, w.partial_matching_images, "partial_count", "partial_url")
           /\ Len(OfKind(sec, "entities_count")) = IF Len(w.web_entities) = 0 THEN 0 ELSE 1
           /\ Len(w.web_entities) > 0 =>
                 OfKind(sec, "entities_count")[1].nums = <<Len(w.web_entities)>>
           /\ Len(OfKind(sec, "entity_score")) = Len(w.web_entities)
           /\ Len(OfKind(sec, "entity_description")) = Len(w.web_entities)
           /\ \A i \in 1..Len(w.web_entities) :
                 OfKind(sec, "entity_description")[i].text = w.web_entities[i].description

C8_Witness ==
    /\ Sections(out) = 2
    /\ Len(responses.web_response.pages_with_matching_images) = 0
    /\ Len(responses.web_response.full_matching_images) = 2
    /\ Len(responses.web_response.partial_matching_images) = 1
    /\ Len(responses.web_response.web_entities) = 0
    /\ Len(Section(out, 2)) = 7

----------------------------------------------------------------------------
(* C9: for the first face of the response, each of anger, joy and surprise *)
(* whose ordinal k is in 0..5 is printed as the k-th name of UNKNOWN,      *)
(* VERY_UNLIKELY, UNLIKELY, POSSIBLE, LIKELY, VERY_LIKELY, and the first   *)
(* of them whose ordinal is outside 0..5 prints no label and raises the    *)
(* index error.                                                            *)
C9_Original ==
    (Sections(out) >= 3 /\ Len(responses.face_response.face_annotations) > 0) =>
        LET f == responses.face_response.face_annotations[1]
            sec == Section(out, 3)
            names == <<"UNKNOWN", "VERY_UNLIKELY", "UNLIKELY", "POSSIBLE",
                       "LIKELY", "VERY_LIKELY">>
            InTable(k) == k \in 0..5
            Printed(kind, k) == /\ Len(OfKind(sec, kind)) > 0
                                /\ OfKind(sec, kind)[1].text = names[k + 1]
            Refused(kind) == /\ Len(OfKind(sec, kind)) = 0
                             /\ exception.type = "IndexError"
            a == f.anger_likelihood
            j == f.joy_likelihood
            s == f.surprise_likelihood
        IN /\ IF InTable(a) THEN Printed("anger", a) ELSE Refused("anger")
           /\ InTable(a) =>
                 IF InTable(j) THEN Printed("joy", j) ELSE Refused("joy")
           /\ (InTable(a) /\ InTable(j)) =>
                 IF InTable(s) THEN Printed("surprise", s) ELSE Refused("surprise")

====
